---- MODULE Spec2Model ----
(***************************************************************************)
(* ChatConnect: the in-memory message log and typing-presence registry of  *)
(* server/storage.ts, the HTTP routes in front of them, and the polling    *)
(* chat client.                                                            *)
(*                                                                         *)
(* Strings are sequences of one-character strings, so that trim() and      *)
(* length are computed.  Time is the value of Date.getTime() in            *)
(* milliseconds; the clock advances in steps of one second.                *)
(***************************************************************************)
EXTENDS Integers, Sequences, FiniteSets, TLC

\* ------------------------------------------------------------------ bounds
\* clock ticks (of 1000 ms) the presence specification runs for
MaxTicks == 11
\* clock ticks the message-log specification runs for
LogTicks == 2
\* clock steps (of 5000 ms) the specification of the whole server runs for
MaxCoarse == 2
\* messages the log may hold
MaxMessages == 2
\* messages the log may hold in the message-log specification
LogMessages == 3
\* randomUUID() calls in one run
MaxUuids == 4
\* clock ticks the validation specification runs for
ValidateTicks == 1
\* messages the log may hold in the validation specification
ValidateMessages == 1
\* seconds the interval callback may run late by
\* seconds of clock in the specification of the cleanup: two runs of the timer
ReapTicks == 22
MaxLate == 1
\* seconds of clock and messages stored where the chats type and send
AdvisoryTicks == 1
AdvisoryMessages == 1

\* --------------------------------------------------------- program constants
\* getActiveTypingUsers: cutoff = now - 3000
Wactive == 3000
\* sweep: cutoff = now - 5000
Wreap == 5000
\* setInterval(..., 10000)
SweepEvery == 10000
\* POST /api/messages: content.length > 500 is rejected
MaxContent == 500

\* ------------------------------------------------------------------ strings
Alice == <<"a", "l">>
Bob == <<"b", "o">>
Users == {Alice, Bob}
\* a value that is not there: an absent body field, an absent query parameter
Undefined == <<"undefined", "">>
Empty == <<>>
Blank == <<" ">>
Hi == <<"h", "i">>
Yo == <<" ", "y", "o", " ">>
Full == [i \in 1..MaxContent |-> "x"]
TooLong == [i \in 1..(MaxContent + 1) |-> "x"]

RECURSIVE TrimStart(_)
\* String.prototype.trim, the leading half
TrimStart(s) == IF s # <<>> /\ Head(s) = " " THEN TrimStart(Tail(s)) ELSE s

RECURSIVE TrimEnd(_)
\* String.prototype.trim, the trailing half
TrimEnd(s) == IF s # <<>> /\ s[Len(s)] = " " THEN TrimEnd(SubSeq(s, 1, Len(s) - 1)) ELSE s

\* String.prototype.trim
Trim(s) == TrimEnd(TrimStart(s))

\* -------------------------------------------------------------------- state
VARIABLES
  now,          \* the clock: what new Date().getTime() returns
  nextSweep,    \* when the setInterval callback is next due
  messages,     \* MemStorage.messages: the array, in push order
  typingUsers,  \* MemStorage.typingUsers: the Map's entries, in insertion order
  uuids,        \* how many UUIDs randomUUID() has handed out
  data,         \* Chat of each user: the messages its query last fetched
  previousMessageCount,  \* Chat of each user: the state of that name
  effectDue,    \* Chat of each user: the notification effect has yet to run
  sending,      \* Chat of each user: the content of the send in flight
  appendedSince,  \* history: the messages pushed since the user's last fetch
  created,      \* history: how many sends of each user were answered 201
  table,        \* DatabaseStorage: the rows of the messages table
  swallowed,    \* history: a touch of the user's chat failed, which the chat ignored
  typingRun,    \* history: when each user's run of touches began and last was
  last          \* the operation that ran last, with what it answered

serverVars == <<now, nextSweep, messages, typingUsers, uuids>>
clientVars == <<data, previousMessageCount, effectDue, sending>>
vars == <<now, nextSweep, messages, typingUsers, uuids, data, previousMessageCount,
          effectDue, sending, table, swallowed,
          appendedSince, created, typingRun, last>>

\* the record of an operation: its name, the user or parameter it ran for,
\* the HTTP status it answered (0: none), the list it returned
Did(op, who, status, out) == [op |-> op, who |-> who, status |-> status, out |-> out]

\* the elements of a list
Range(s) == {s[i] : i \in 1..Len(s)}

\* ------------------------------------------------------------------ storage
RECURSIVE InsertByTimestamp(_, _)
\* one step of Array.prototype.sort with (a, b) => a.timestamp - b.timestamp:
\* m goes behind every element that does not compare greater (the sort is stable)
InsertByTimestamp(sorted, m) ==
  IF sorted = <<>> THEN <<m>>
  ELSE IF sorted[Len(sorted)].timestamp - m.timestamp > 0
       THEN Append(InsertByTimestamp(SubSeq(sorted, 1, Len(sorted) - 1), m), sorted[Len(sorted)])
       ELSE Append(sorted, m)

RECURSIVE SortByTimestamp(_)
\* [...msgs].sort(by timestamp): a sorted copy, msgs itself is not touched
SortByTimestamp(msgs) ==
  IF msgs = <<>> THEN <<>>
  ELSE InsertByTimestamp(SortByTimestamp(SubSeq(msgs, 1, Len(msgs) - 1)), msgs[Len(msgs)])

\* a getMessages that returns the array as stored, newest first
getMessagesNewestFirst(msgs) == [i \in 1..Len(msgs) |-> msgs[Len(msgs) + 1 - i]]

\* a getMessages that returns the latest message only
getMessagesLatest(msgs) == IF msgs = <<>> THEN <<>> ELSE <<msgs[Len(msgs)]>>

\* MemStorage.getMessages
getMessages(msgs) == SortByTimestamp(msgs)

\* randomUUID(): a value no earlier call returned, the n-th call returning n
randomUUID(n) == n + 1

\* MemStorage.createMessage: the message it builds and returns,
\* { ...insertMessage, id, timestamp: new Date() }
messageOf(insertMessage, id, t) ==
  [id |-> id, content |-> insertMessage.content,
   username |-> insertMessage.username, timestamp |-> t]

\* DatabaseStorage.createMessage: insert(messages).values(insertMessage)
\* .returning(), id and timestamp from the column defaults gen_random_uuid()
\* and now() for the columns that insertMessage does not give; a table is a
\* set of rows
DbCreateMessage(rows, insertMessage, id, t) ==
  rows \cup {[id |-> IF "id" \in DOMAIN insertMessage THEN insertMessage.id ELSE id,
              content |-> insertMessage.content,
              username |-> insertMessage.username,
              timestamp |-> IF "timestamp" \in DOMAIN insertMessage
                            THEN insertMessage.timestamp ELSE t]}

\* DatabaseStorage.getMessages: select().from(messages).orderBy(timestamp);
\* the results the query may give, SQL leaving the order of rows of equal
\* timestamp to the database
DbGetMessages(rows) ==
  {r \in [1..Cardinality(rows) -> rows] :
     /\ \A i, j \in 1..Cardinality(rows) : i < j => r[i] # r[j]
     /\ \A i, j \in 1..Cardinality(rows) : i < j => r[i].timestamp <= r[j].timestamp}

\* a createMessage that keeps a window of the log, dropping the oldest message
createMessageCapped(msgs, insertMessage, id, t) ==
  IF msgs = <<>> THEN <<messageOf(insertMessage, id, t)>>
  ELSE Append(Tail(msgs), messageOf(insertMessage, id, t))

\* a createMessage that unshifts instead of pushing
createMessageUnshift(msgs, insertMessage, id, t) == <<messageOf(insertMessage, id, t)>> \o msgs

\* a createMessage that writes over the last element once the log is not empty
createMessageOverwrite(msgs, insertMessage, id, t) ==
  IF msgs = <<>> THEN <<messageOf(insertMessage, id, t)>>
  ELSE [msgs EXCEPT ![Len(msgs)] = messageOf(insertMessage, id, t)]

\* MemStorage.createMessage: the array after this.messages.push(message)
createMessage(msgs, insertMessage, id, t) == Append(msgs, messageOf(insertMessage, id, t))

\* Map.prototype.get: the entry stored under the key, or Undefined
MapGet(entries, key) ==
  IF \E i \in 1..Len(entries) : entries[i].username = key
  THEN entries[CHOOSE i \in 1..Len(entries) : entries[i].username = key]
  ELSE [id |-> 0, username |-> Undefined, lastTyping |-> 0]

\* a set that always adds an entry
MapSetAppend(entries, key, value) == Append(entries, value)

\* Map.prototype.set: an existing key keeps its place, a new key goes last
MapSet(entries, key, value) ==
  IF \E i \in 1..Len(entries) : entries[i].username = key
  THEN [i \in 1..Len(entries) |-> IF entries[i].username = key THEN value ELSE entries[i]]
  ELSE Append(entries, value)

\* Map.prototype.delete
MapDelete(entries, key) == SelectSeq(entries, LAMBDA e : e.username # key)

\* a status that always takes a new id
typingStatusFresh(entries, username, freshId, t) ==
  [id |-> freshId, username |-> username, lastTyping |-> t]

\* MemStorage.updateTypingStatus: the status it builds, the id of the existing
\* entry kept (existingStatus?.id || randomUUID())
typingStatusOf(entries, username, freshId, t) ==
  [id |-> IF MapGet(entries, username).username = username
          THEN MapGet(entries, username).id ELSE freshId,
   username |-> username,
   lastTyping |-> t]

\* an updateTypingStatus that leaves an existing entry as it is
updateTypingStatusKeep(entries, username, freshId, t) ==
  IF MapGet(entries, username).username = username THEN entries
  ELSE Append(entries, [id |-> freshId, username |-> username, lastTyping |-> t])

\* an updateTypingStatus that also deletes the entries older than 5000 ms
updateTypingStatusPruning(entries, username, freshId, t) ==
  MapSet(SelectSeq(entries, LAMBDA e : ~(e.lastTyping < t - Wreap)),
         username, typingStatusOf(entries, username, freshId, t))

\* an updateTypingStatus that stamps every entry with the time of the call
updateTypingStatusStampAll(entries, username, freshId, t) ==
  LET set == MapSet(entries, username, typingStatusOf(entries, username, freshId, t))
  IN  [i \in 1..Len(set) |-> [set[i] EXCEPT !.lastTyping = t]]

\* MemStorage.updateTypingStatus: the registry after the set
updateTypingStatus(entries, username, freshId, t) ==
  MapSet(entries, username, typingStatusOf(entries, username, freshId, t))

\* a getActiveTypingUsers whose cutoff is the sweep's
getActiveTypingUsersReapWindow(entries, excludeUsername, t) ==
  LET keep(e) == e.lastTyping >= t - Wreap /\ e.username # excludeUsername
      kept == SelectSeq(entries, keep)
  IN  [i \in 1..Len(kept) |-> kept[i].username]

\* a getActiveTypingUsers that forgets excludeUsername
getActiveTypingUsersAll(entries, excludeUsername, t) ==
  LET keep(e) == e.lastTyping >= t - Wactive
      kept == SelectSeq(entries, keep)
  IN  [i \in 1..Len(kept) |-> kept[i].username]

\* a getActiveTypingUsers that drops the entry touched exactly 3000 ms ago
getActiveTypingUsersStrict(entries, excludeUsername, t) ==
  LET keep(e) == e.lastTyping > t - Wactive /\ e.username # excludeUsername
      kept == SelectSeq(entries, keep)
  IN  [i \in 1..Len(kept) |-> kept[i].username]

\* MemStorage.getActiveTypingUsers: lastTyping >= now - 3000 and
\* username !== excludeUsername, in the Map's order
getActiveTypingUsers(entries, excludeUsername, t) ==
  LET keep(e) == e.lastTyping >= t - Wactive /\ e.username # excludeUsername
      kept == SelectSeq(entries, keep)
  IN  [i \in 1..Len(kept) |-> kept[i].username]

RECURSIVE SweepFrom(_, _, _)
\* the setInterval callback: over a copy of the entries, delete every entry
\* whose lastTyping < now - 5000
SweepFrom(snapshot, entries, t) ==
  IF snapshot = <<>> THEN entries
  ELSE SweepFrom(Tail(snapshot),
                 IF Head(snapshot).lastTyping < t - Wreap
                 THEN MapDelete(entries, Head(snapshot).username)
                 ELSE entries,
                 t)

\* a cleanup whose cutoff is the interval, now - 10000
sweepLate(entries, t) == SelectSeq(entries, LAMBDA e : ~(e.lastTyping < t - SweepEvery))

\* a cleanup whose cutoff is that of getActiveTypingUsers, now - 3000
sweepActiveWindow(entries, t) == SelectSeq(entries, LAMBDA e : ~(e.lastTyping < t - Wactive))

\* a cleanup whose cutoff is 5 ms, now - 5
sweepMillis(entries, t) == SelectSeq(entries, LAMBDA e : ~(e.lastTyping < t - 5))

\* a cleanup that deletes nothing
sweepNothing(entries, t) == entries

\* a cleanup that stops after the first entry it deletes
sweepOne(entries, t) ==
  IF \E i \in 1..Len(entries) : entries[i].lastTyping < t - Wreap
  THEN LET first == CHOOSE i \in 1..Len(entries) :
                      /\ entries[i].lastTyping < t - Wreap
                      /\ \A j \in 1..(i - 1) : ~(entries[j].lastTyping < t - Wreap)
       IN  MapDelete(entries, entries[first].username)
  ELSE entries

\* the registry after one run of the cleanup callback at time t
sweep(entries, t) == SweepFrom(entries, entries, t)

\* ------------------------------------------------------------------- routes
\* insertMessageSchema.parse: content and username must be there; every other
\* key of the body is dropped
ParsesAsMessage(body) == body.content # Undefined /\ body.username # Undefined

\* a schema that lets the other keys of the body through
ParsedMessagePassthrough(body) == body

\* what insertMessageSchema.parse returns
ParsedMessage(body) == [content |-> body.content, username |-> body.username]

\* a handler without the check of the length
PostMessagesStatusNoLimit(body) ==
  IF ~ParsesAsMessage(body) THEN 400
  ELSE IF Trim(body.content) = <<>> THEN 400
  ELSE IF Trim(body.username) = <<>> THEN 400
  ELSE 201

\* a handler that rejects content.length >= 500
PostMessagesStatusOffByOne(body) ==
  IF ~ParsesAsMessage(body) THEN 400
  ELSE IF Trim(body.content) = <<>> THEN 400
  ELSE IF Len(body.content) >= MaxContent THEN 400
  ELSE IF Trim(body.username) = <<>> THEN 400
  ELSE 201

\* POST /api/messages: the status the handler answers
PostMessagesStatus(body) ==
  IF ~ParsesAsMessage(body) THEN 400
  ELSE IF Trim(body.content) = <<>> THEN 400
  ELSE IF Len(body.content) > MaxContent THEN 400
  ELSE IF Trim(body.username) = <<>> THEN 400
  ELSE 201

\* POST /api/messages: the reason a 400 carries, { message: ... }
PostMessagesReason(body) ==
  IF ~ParsesAsMessage(body) THEN "Invalid message data"
  ELSE IF Trim(body.content) = <<>> THEN "Message content cannot be empty"
  ELSE IF Len(body.content) > MaxContent THEN "Message too long"
  ELSE "Username is required"

\* insertTypingSchema.parse: username must be there
ParsesAsTyping(body) == body.username # Undefined

\* a handler without the check of the username
PostTypingStatusLax(body) == IF ~ParsesAsTyping(body) THEN 400 ELSE 200

\* POST /api/typing: the status the handler answers
PostTypingStatus(body) ==
  IF ~ParsesAsTyping(body) THEN 400
  ELSE IF Trim(body.username) = <<>> THEN 400
  ELSE 200

\* POST /api/typing: the reason a 400 carries, { message: ... }
PostTypingReason(body) ==
  IF ~ParsesAsTyping(body) THEN "Invalid typing data" ELSE "Username is required"

\* the bodies a caller may post to /api/messages
MessageBodies ==
  [content : {Hi, Empty, Blank, TooLong, Undefined},
   username : Users \cup {Empty, Blank, Undefined},
   id : {Undefined},
   timestamp : {Undefined}]
  \cup [content : {Hi}, username : Users, id : {<<"7">>}, timestamp : {<<"9">>}]

\* bodies at the limits of the validation: content of 500 and of 501
\* characters, content and username padded with or made of spaces
LimitBodies ==
  [content : {Hi, Yo, Empty, Blank, Full, TooLong, Undefined},
   username : {Alice, Empty, Blank, Undefined},
   id : {Undefined},
   timestamp : {Undefined}]

\* the bodies of one user at the limits of the validation of /api/typing
LimitTypingBodies == [username : {Alice, Empty, Blank, Undefined}]

\* of these, one that is stored for each user and one that is rejected
FewBodies ==
  [content : {Hi}, username : Users \cup {Blank}, id : {Undefined}, timestamp : {Undefined}]

\* bodies that carry an id and a timestamp of the caller's choosing, and one
\* that is rejected
StampBodies ==
  [content : {Hi}, username : Users \cup {Blank}, id : {7, 8}, timestamp : {1, 99000}]

\* the bodies a caller may post to /api/typing
TypingBodies == [username : Users \cup {Empty, Blank, Undefined}]

\* what a user may have typed into the message input
Inputs == {Yo, Blank}

\* ------------------------------------------------------------------- client
\* encodeURIComponent, on letters and spaces
RECURSIVE EncodeURIComponent(_)
EncodeURIComponent(s) ==
  IF s = <<>> THEN <<>>
  ELSE (IF Head(s) = " " THEN <<"%", "2", "0">> ELSE <<Head(s)>>) \o EncodeURIComponent(Tail(s))

\* the query-string decoding behind req.query
RECURSIVE DecodeQuery(_)
DecodeQuery(s) ==
  IF s = <<>> THEN <<>>
  ELSE IF Len(s) >= 3 /\ SubSeq(s, 1, 3) = <<"%", "2", "0">>
       THEN <<" ">> \o DecodeQuery(SubSeq(s, 4, Len(s)))
       ELSE <<Head(s)>> \o DecodeQuery(Tail(s))

\* Array.prototype.slice(start)
Slice(s, start) == SubSeq(s, start + 1, Len(s))

\* an effect that also reports when previousMessageCount is 0
newMessagesFromOthersNoBaseline(msgs, count, username) ==
  IF Len(msgs) > 0
  THEN SelectSeq(Slice(msgs, count), LAMBDA m : m.username # username)
  ELSE <<>>

\* Chat effect: messages.slice(previousMessageCount) without the user's own,
\* when messages.length > 0 && previousMessageCount > 0
newMessagesFromOthers(msgs, count, username) ==
  IF Len(msgs) > 0 /\ count > 0
  THEN SelectSeq(Slice(msgs, count), LAMBDA m : m.username # username)
  ELSE <<>>

\* ------------------------------------------------------------------ actions
Init ==
  /\ now = 0
  /\ nextSweep = SweepEvery
  /\ messages = <<>>
  /\ typingUsers = <<>>
  /\ uuids = 0
  /\ data = [u \in Users |-> <<>>]
  /\ previousMessageCount = [u \in Users |-> 0]
  /\ effectDue = [u \in Users |-> FALSE]
  /\ sending = [u \in Users |-> Undefined]
  /\ table = {}
  /\ swallowed = [u \in Users |-> FALSE]
  /\ appendedSince = [u \in Users |-> <<>>]
  /\ created = [u \in Users |-> 0]
  /\ typingRun = [u \in Users |-> [since |-> -1, at |-> -1]]
  /\ last = Did("start", Undefined, 0, <<>>)

\* the clock advances by step ms; the timer callback runs when it is due or,
\* the event loop being busy, up to MaxLate seconds later
Tick(step, maxNow) ==
  /\ now + step <= nextSweep + MaxLate * 1000
  /\ now + step <= maxNow
  /\ now' = now + step
  /\ last' = Did("tick", Undefined, 0, <<>>)
  /\ UNCHANGED <<nextSweep, messages, typingUsers, uuids, clientVars,
                 appendedSince, created, typingRun>>
  /\ UNCHANGED <<table, swallowed>>

\* GET /api/messages: the handler
GetMessagesHandler(who) ==
  /\ last' = Did("GET /api/messages", who, 200, getMessages(messages))
  /\ UNCHANGED <<serverVars, created, typingRun>>

\* POST /api/messages: the handler
PostMessagesHandler(body, cap) ==
  /\ IF PostMessagesStatus(body) = 201
     THEN /\ Len(messages) < cap
          /\ uuids < MaxUuids
          /\ messages' = createMessage(messages, ParsedMessage(body), randomUUID(uuids), now)
          /\ uuids' = uuids + 1
          /\ last' = Did("POST /api/messages", body.username, 201,
                         <<messageOf(ParsedMessage(body), randomUUID(uuids), now)>>)
          /\ appendedSince' =
               [u \in Users |-> Append(appendedSince[u],
                                       messageOf(ParsedMessage(body), randomUUID(uuids), now))]
          /\ created' = [u \in Users |->
                           IF u = body.username THEN created[u] + 1 ELSE created[u]]
     ELSE /\ last' = Did("POST /api/messages", body.username, PostMessagesStatus(body),
                         <<PostMessagesReason(body)>>)
          /\ UNCHANGED <<messages, uuids, appendedSince, created>>
  /\ UNCHANGED <<now, nextSweep, typingUsers, typingRun>>

\* POST /api/typing: the handler
PostTypingHandler(body) ==
  /\ IF PostTypingStatus(body) = 200
     THEN /\ MapGet(typingUsers, body.username).username = body.username \/ uuids < MaxUuids
          /\ typingUsers' = updateTypingStatus(typingUsers, body.username, randomUUID(uuids), now)
          /\ uuids' = IF MapGet(typingUsers, body.username).username = body.username
                      THEN uuids ELSE uuids + 1
          /\ last' = Did("POST /api/typing", body.username, 200,
                         <<typingStatusOf(typingUsers, body.username, randomUUID(uuids), now)>>)
          /\ typingRun' =
               [u \in Users |->
                 IF u # body.username THEN typingRun[u]
                 ELSE IF typingRun[u].at >= 0 /\ now - typingRun[u].at <= Wactive
                      THEN [since |-> typingRun[u].since, at |-> now]
                      ELSE [since |-> now, at |-> now]]
     ELSE /\ last' = Did("POST /api/typing", body.username, PostTypingStatus(body),
                         <<PostTypingReason(body)>>)
          /\ UNCHANGED <<typingUsers, uuids, typingRun>>
  /\ UNCHANGED <<now, nextSweep, messages, appendedSince, created>>

\* GET /api/typing?exclude=...: the handler
GetTypingHandler(op, excludeUsername) ==
  /\ last' = Did(op, excludeUsername, 200,
                 getActiveTypingUsers(typingUsers, excludeUsername, now))
  /\ UNCHANGED <<serverVars, clientVars, appendedSince, created, typingRun>>
  /\ UNCHANGED <<table, swallowed>>

\* a caller gets /api/messages
GetMessages ==
  /\ GetMessagesHandler(Undefined)
  /\ UNCHANGED <<clientVars, appendedSince>>
  /\ UNCHANGED <<table, swallowed>>

\* a caller posts to /api/messages
PostMessages(body, cap) ==
  /\ PostMessagesHandler(body, cap)
  /\ UNCHANGED clientVars
  /\ UNCHANGED <<table, swallowed>>

\* a caller posts to /api/typing; Chat.updateTypingStatus posts { username }
PostTyping(body) ==
  /\ PostTypingHandler(body)
  /\ UNCHANGED clientVars
  /\ UNCHANGED <<table, swallowed>>

\* a caller gets /api/typing, with or without the exclude parameter
GetTyping(excludeUsername) == GetTypingHandler("GET /api/typing", excludeUsername)

\* TypingIndicator of user currentUsername: its query, enabled: !!currentUsername
TypingIndicatorQuery(currentUsername) ==
  /\ currentUsername # <<>>
  /\ GetTypingHandler("TypingIndicator", DecodeQuery(EncodeURIComponent(currentUsername)))

\* the setInterval callback of the constructor
Sweep ==
  /\ now >= nextSweep
  /\ typingUsers' = sweep(typingUsers, now)
  /\ nextSweep' = now + SweepEvery
  /\ last' = Did("sweep", Undefined, 0, <<>>)
  /\ UNCHANGED <<now, messages, uuids, clientVars, appendedSince, created, typingRun>>
  /\ UNCHANGED <<table, swallowed>>

\* Chat of user u: the messages query fetches (refetchInterval, or invalidated)
MessagesQuery(u) ==
  /\ ~effectDue[u]
  /\ GetMessagesHandler(u)
  /\ data' = [data EXCEPT ![u] = getMessages(messages)]
  /\ effectDue' = [effectDue EXCEPT ![u] = (getMessages(messages) # data[u])]
  /\ appendedSince' = [appendedSince EXCEPT ![u] = <<>>]
  /\ UNCHANGED <<previousMessageCount, sending>>
  /\ UNCHANGED <<table, swallowed>>

\* Chat of user u: the effect "Handle notifications for new messages"
NotificationEffect(u) ==
  /\ effectDue[u]
  /\ last' = Did("effect", u, 0,
                 newMessagesFromOthers(data[u], previousMessageCount[u], u))
  /\ previousMessageCount' = [previousMessageCount EXCEPT ![u] = Len(data[u])]
  /\ effectDue' = [effectDue EXCEPT ![u] = (Len(data[u]) # previousMessageCount[u])]
  /\ UNCHANGED <<serverVars, data, sending, appendedSince, created, typingRun>>
  /\ UNCHANGED <<table, swallowed>>

\* Chat of user u: handleSendMessage, the input holding messageInput
HandleSendMessage(u, messageInput) ==
  /\ sending[u] = Undefined
  /\ Trim(messageInput) # <<>> /\ u # <<>>
  /\ sending' = [sending EXCEPT ![u] = Trim(messageInput)]
  /\ last' = Did("handleSendMessage", u, 0, <<>>)
  /\ UNCHANGED <<serverVars, data, previousMessageCount, effectDue,
                 appendedSince, created, typingRun>>
  /\ UNCHANGED <<table, swallowed>>

\* the server answers the send of user u that is in flight
ServeSend(u, cap) ==
  /\ sending[u] # Undefined
  /\ PostMessagesHandler([content |-> sending[u], username |-> u,
                          id |-> Undefined, timestamp |-> Undefined], cap)
  /\ sending' = [sending EXCEPT ![u] = Undefined]
  /\ UNCHANGED <<data, previousMessageCount, effectDue>>
  /\ UNCHANGED <<table, swallowed>>

\* a caller posts to /api/messages of a server over MemStorage and of one
\* over DatabaseStorage, the clocks of both reading the same
DbPostMessages(body, cap) ==
  /\ PostMessagesHandler(body, cap)
  /\ table' = IF PostMessagesStatus(body) = 201
              THEN DbCreateMessage(table, ParsedMessage(body), randomUUID(uuids), now)
              ELSE table
  /\ UNCHANGED <<clientVars, swallowed>>

\* a caller gets /api/messages of the server over DatabaseStorage
DbGetMessagesHandler ==
  /\ \E r \in DbGetMessages(table) : last' = Did("DatabaseStorage.getMessages", Undefined, 200, r)
  /\ UNCHANGED <<serverVars, clientVars, table, swallowed, appendedSince, created, typingRun>>

\* a updateTypingStatus whose failure is not caught and ends the send in flight
UpdateTypingStatusThrows(u, served) ==
  /\ u # <<>>
  /\ IF served
     THEN PostTypingHandler([username |-> u]) /\ UNCHANGED <<sending, swallowed>>
     ELSE /\ last' = Did("updateTypingStatus", u, 500, <<>>)
          /\ sending' = [sending EXCEPT ![u] = Undefined]
          /\ swallowed' = [swallowed EXCEPT ![u] = TRUE]
          /\ UNCHANGED <<serverVars, appendedSince, created, typingRun>>
  /\ UNCHANGED <<data, previousMessageCount, effectDue, table>>

\* Chat of user u: updateTypingStatus, called on every change of the input;
\* the request is served, or it fails and the catch block ignores the error
UpdateTypingStatus(u, served) ==
  /\ u # <<>>
  /\ IF served
     THEN PostTypingHandler([username |-> u]) /\ UNCHANGED swallowed
     ELSE /\ last' = Did("updateTypingStatus", u, 500, <<>>)
          /\ swallowed' = [swallowed EXCEPT ![u] = TRUE]
          /\ UNCHANGED <<serverVars, appendedSince, created, typingRun>>
  /\ UNCHANGED <<clientVars, table>>

\* the server and its callers, the clock in steps of five seconds
Next ==
  \/ Tick(5000, MaxCoarse * 5000)
  \/ GetMessages
  \/ \E body \in FewBodies : PostMessages(body, MaxMessages)
  \/ \E body \in TypingBodies : PostTyping(body)
  \/ \E x \in Users \cup {Undefined} : GetTyping(x)
  \/ Sweep

Spec == Init /\ [][Next]_vars

\* the presence registry, the clock in steps of one second
NextPresence ==
  \/ Tick(1000, MaxTicks * 1000)
  \/ \E body \in TypingBodies : PostTyping(body)
  \/ \E x \in Users \cup {Undefined} : GetTyping(x)
  \/ \E u \in Users : TypingIndicatorQuery(u)
  \/ Sweep

SpecPresence == Init /\ [][NextPresence]_vars

\* the message log and the users sending to it
NextLog ==
  \/ Tick(1000, LogTicks * 1000)
  \/ GetMessages
  \/ \E body \in FewBodies : PostMessages(body, LogMessages)
  \/ \E u \in Users, messageInput \in Inputs : HandleSendMessage(u, messageInput)
  \/ \E u \in Users : ServeSend(u, LogMessages)

SpecLog == Init /\ [][NextLog]_vars

\* the chat clients polling the message log
NextChat ==
  \/ Tick(1000, LogTicks * 1000)
  \/ \E body \in FewBodies : PostMessages(body, MaxMessages)
  \/ \E u \in Users : MessagesQuery(u)
  \/ \E u \in Users : NotificationEffect(u)

SpecChat == Init /\ [][NextChat]_vars

\* the two POST routes and what they reject
NextValidate ==
  \/ Tick(1000, ValidateTicks * 1000)
  \/ \E body \in LimitBodies : PostMessages(body, ValidateMessages)
  \/ \E body \in LimitTypingBodies : PostTyping(body)

SpecValidate == Init /\ [][NextValidate]_vars


\* the bodies one user posts to /api/typing, one stored and one rejected
ReapBodies == [username : {Alice, Blank}]

\* the registry and its cleanup over two runs of the timer
NextReap ==
  \/ Tick(1000, ReapTicks * 1000)
  \/ \E body \in ReapBodies : PostTyping(body)
  \/ Sweep

\* time passes and a due timer callback runs
SpecReap ==
  /\ Init /\ [][NextReap]_vars
  /\ WF_vars(Tick(1000, ReapTicks * 1000))
  /\ WF_vars(Sweep)

\* the same appends to the in-memory and to the database-backed store
NextDb ==
  \/ Tick(1000, LogTicks * 1000)
  \/ \E body \in FewBodies : DbPostMessages(body, MaxMessages)
  \/ DbGetMessagesHandler

SpecDb == Init /\ [][NextDb]_vars

\* the chat clients typing and sending
NextAdvisory ==
  \/ Tick(1000, AdvisoryTicks * 1000)
  \/ \E u \in Users, served \in BOOLEAN : UpdateTypingStatus(u, served)
  \/ \E u \in Users, messageInput \in Inputs : HandleSendMessage(u, messageInput)
  \/ \E u \in Users : ServeSend(u, AdvisoryMessages)

SpecAdvisory == Init /\ [][NextAdvisory]_vars

\* callers that send an id and a timestamp of their own to both stores
NextStamp ==
  \/ Tick(1000, LogTicks * 1000)
  \/ \E body \in StampBodies : DbPostMessages(body, MaxMessages)
  \/ GetMessages

SpecStamp == Init /\ [][NextStamp]_vars

\* ------------------------------------------------------------------- claims
\* s is a prefix of t
IsPrefix(s, t) == Len(s) <= Len(t) /\ SubSeq(t, 1, Len(s)) = s

\* where message m stands in the array
IndexOf(msgs, m) == CHOOSE k \in 1..Len(msgs) : msgs[k] = m

\* the user has an entry in the registry
HasEntry(entries, u) == \E i \in 1..Len(entries) : entries[i].username = u

\* the operation that ran last is a query of the typing users
TypingQueried == last.op \in {"GET /api/typing", "TypingIndicator"}

\* C1: what GET /api/messages returns holds every stored message once, is
\* sorted non-decreasing by timestamp, and keeps messages of equal timestamp in
\* the order they were pushed in.
C1_ListSortedStable ==
  last.op = "GET /api/messages" =>
    LET r == last.out IN
    /\ Len(r) = Len(messages)
    /\ \A i \in 1..Len(messages) : \E j \in 1..Len(r) : r[j] = messages[i]
    /\ \A i, j \in 1..Len(r) : i < j => r[i].timestamp <= r[j].timestamp
    /\ \A i, j \in 1..Len(r) :
         (i < j /\ r[i].timestamp = r[j].timestamp) =>
           IndexOf(messages, r[i]) < IndexOf(messages, r[j])

\* C1 witness: a list of three messages is returned, two of one timestamp and
\* one of a later timestamp
C1_Witness ==
  /\ last.op = "GET /api/messages"
  /\ Len(last.out) = 3
  /\ last.out[1].timestamp = last.out[2].timestamp
  /\ last.out[2].timestamp < last.out[3].timestamp
  /\ last.out[1].username # last.out[2].username

\* C2: in every step, whichever operation takes it, every message of the log
\* is still in the log with the same id, content, username and timestamp, and
\* the log is not shorter.
C2_LogAppendOnly ==
  [][/\ Len(messages') >= Len(messages)
     /\ \A i \in 1..Len(messages) : \E j \in 1..Len(messages') : messages'[j] = messages[i]]_vars

\* C2 witness: two messages, the first stored before the sweep ran, are in the
\* log after a sweep, with a typing entry in the registry and a typing query
\* just answered
C2_Witness ==
  /\ Len(messages) = 2
  /\ messages[1].timestamp < SweepEvery
  /\ nextSweep > SweepEvery
  /\ typingUsers # <<>>
  /\ last.op = "GET /api/typing"

\* C3: when the messages query of a user fetches, the list it held is a prefix
\* of the list it gets, and the elements of the new list from index
\* previousMessageCount on are exactly the messages pushed since its last fetch.
C3_CountDiffSafe ==
  [][\A u \in Users :
       (last'.op = "GET /api/messages" /\ last'.who = u) =>
         /\ IsPrefix(data[u], data'[u])
         /\ Slice(data'[u], previousMessageCount[u]) = appendedSince[u]]_vars

\* C3 witness: a user that had seen one message has just fetched two
C3_Witness ==
  \E u \in Users :
    /\ last.op = "GET /api/messages" /\ last.who = u
    /\ previousMessageCount[u] = 1
    /\ Len(data[u]) = 2
    /\ effectDue[u]

\* C4: the registry never holds two entries of one username, and a query of
\* the typing users never lists a username twice.
C4_OneEntryPerAuthor ==
  /\ \A i, j \in 1..Len(typingUsers) :
       typingUsers[i].username = typingUsers[j].username => i = j
  /\ TypingQueried =>
       \A i, j \in 1..Len(last.out) : last.out[i] = last.out[j] => i = j

\* C4 witness: after a sweep, both users have an entry, one of them refreshed
\* by a second touch, and a query lists the two
C4_Witness ==
  /\ nextSweep > SweepEvery
  /\ Len(typingUsers) = 2
  /\ \E u \in Users : typingRun[u].since < typingRun[u].at
  /\ last.op = "GET /api/typing"
  /\ Len(last.out) = 2

\* C5: a query of the typing users at time now with exclude = x returns
\* exactly the usernames of the entries with now - lastTyping <= 3000, without
\* x; without the parameter nobody is left out.
C5_ActiveAuthorsExact ==
  TypingQueried =>
    Range(last.out) =
      {typingUsers[i].username : i \in {k \in 1..Len(typingUsers) :
                                          now - typingUsers[k].lastTyping <= Wactive}}
        \ {last.who}

\* C5 witness: a query without the parameter returns one user while the entry
\* of the other, older than 3000 ms, is still in the registry
C5_Witness ==
  /\ last.op = "GET /api/typing"
  /\ last.who = Undefined
  /\ Len(last.out) = 1
  /\ Len(typingUsers) = 2
  /\ \E i \in 1..2 : now - typingUsers[i].lastTyping > Wactive

\* C6: the query of a user's TypingIndicator never returns that user; the
\* query of another user's, within 3000 ms of the user's last touch, does.
C6_NoSelfIndicator ==
  last.op = "TypingIndicator" =>
    /\ last.who \notin Range(last.out)
    /\ \A u \in Users \ {last.who} :
         (typingRun[u].at >= 0 /\ now - typingRun[u].at <= Wactive) => u \in Range(last.out)

\* C6 witness: the only active user queries and gets the empty list
C6_Witness ==
  /\ last.op = "TypingIndicator"
  /\ last.out = <<>>
  /\ Len(typingUsers) = 1
  /\ typingUsers[1].username = last.who
  /\ now - typingUsers[1].lastTyping <= Wactive

\* C7: right after a sweep no entry older than 5000 ms is in the registry;
\* a touch by a user is answered 200 and leaves the user's entry with
\* lastTyping = now, also when a sweep had removed the user's entry.
C7_ReapedThenFresh ==
  /\ last.op = "sweep" =>
       \A i \in 1..Len(typingUsers) : now - typingUsers[i].lastTyping <= Wreap
  /\ (last.op = "POST /api/typing" /\ last.who \in Users) =>
       /\ last.status = 200
       /\ HasEntry(typingUsers, last.who)
       /\ MapGet(typingUsers, last.who).lastTyping = now
       /\ last.out = <<MapGet(typingUsers, last.who)>>

\* C7 witness: only one user ever touched; a sweep has run, and the user's
\* touch after it made the second entry ever created
C7_Witness ==
  \E u \in Users :
    /\ last.op = "POST /api/typing" /\ last.who = u
    /\ nextSweep > SweepEvery
    /\ \A v \in Users \ {u} : typingRun[v].at = -1
    /\ typingRun[u].since = now
    /\ uuids = 2
    /\ typingUsers = <<[id |-> 2, username |-> u, lastTyping |-> now]>>

\* C8: an entry leaves the registry only in a sweep, and only if its
\* lastTyping at that moment is more than 5000 ms old; a sweep leaves every
\* other entry as it is.
C8_TouchNeverLost ==
  [][\A i \in 1..Len(typingUsers) :
       LET e == typingUsers[i] IN
       /\ ~HasEntry(typingUsers', e.username) =>
            (last'.op = "sweep" /\ now - e.lastTyping > Wreap)
       /\ (last'.op = "sweep" /\ now - e.lastTyping <= Wreap) =>
            \E j \in 1..Len(typingUsers') : typingUsers'[j] = e]_vars

\* C8 witness: a sweep has just run that removed one user's entry and kept the
\* entry another user refreshed at that same time
C8_Witness ==
  /\ last.op = "sweep"
  /\ Len(typingUsers) = 1
  /\ typingUsers[1].lastTyping = now
  /\ typingRun[typingUsers[1].username].since < now
  /\ \A u \in Users : typingRun[u].at >= 0

\* C9: while a user's touches follow each other within 3000 ms, every query
\* of another user's TypingIndicator, from the first of these touches until
\* 3000 ms after the last, returns the user.
C9_NoDropOut ==
  last.op = "TypingIndicator" =>
    \A u \in Users \ {last.who} :
      (typingRun[u].since >= 0 /\ typingRun[u].since <= now
         /\ now <= typingRun[u].at + Wactive) =>
        \E i \in 1..Len(last.out) : last.out[i] = u

\* C9 witness: a run of touches that began before the sweep and more than
\* 3000 ms ago is still going after it, and the other user's query shows it
C9_Witness ==
  \E u \in Users :
    /\ last.op = "TypingIndicator" /\ last.who # u
    /\ typingRun[u].since >= 0
    /\ typingRun[u].since < SweepEvery
    /\ typingRun[u].since + Wactive < now
    /\ nextSweep > SweepEvery
    /\ now <= typingRun[u].at + Wactive
    /\ u \in Range(last.out)

\* C10: once no send is in flight, the list GET /api/messages returns holds,
\* for each user, as many messages as sends of that user were answered 201,
\* and no two of its messages share an id.
C10_NoAppendLost ==
  (last.op = "GET /api/messages" /\ \A u \in Users : sending[u] = Undefined) =>
    /\ \A u \in Users :
         Cardinality({i \in 1..Len(last.out) : last.out[i].username = u}) = created[u]
    /\ \A i, j \in 1..Len(last.out) : last.out[i].id = last.out[j].id => i = j

\* C10 witness: each user sent one message from its chat, at the same time,
\* and the list holds the two
C10_Witness ==
  /\ last.op = "GET /api/messages"
  /\ \A u \in Users : sending[u] = Undefined /\ created[u] = 1
  /\ Len(last.out) = 2
  /\ \A i \in 1..2 : last.out[i].content = Trim(Yo)
  /\ last.out[1].timestamp = last.out[2].timestamp


\* C11: a POST to /api/messages whose content has length 0 or more than 500,
\* or whose username has length 0, is answered 400 and leaves the log and the
\* registry as they were.
C11_RejectedAppendChangesNothing ==
  [][\A body \in LimitBodies :
       (/\ \/ body.content = Empty
           \/ (body.content # Undefined /\ Len(body.content) > MaxContent)
           \/ body.username = Empty
        /\ PostMessages(body, ValidateMessages)) =>
         /\ last'.status = 400
         /\ messages' = messages
         /\ typingUsers' = typingUsers]_vars

\* C11 witness: with a message in the log and an entry in the registry, a
\* content of 501 characters has just been rejected
C11_Witness ==
  /\ last.op = "POST /api/messages"
  /\ last.status = 400
  /\ last.out = <<"Message too long">>
  /\ messages # <<>>
  /\ typingUsers # <<>>

\* C12 as stated: a POST to /api/messages with a content of 1 to 500
\* characters, spaces included, and a username of at least one character is
\* answered 201 and the log grows by one.
C12_Original ==
  [][\A body \in LimitBodies :
       (/\ body.content \notin {Empty, Undefined}
        /\ Len(body.content) <= MaxContent
        /\ body.username \notin {Empty, Undefined}
        /\ PostMessages(body, ValidateMessages)) =>
         /\ last'.status = 201
         /\ Len(messages') = Len(messages) + 1]_vars

\* C12: a POST to /api/messages is answered 400, the log unchanged, exactly
\* when a field is missing, the content trims to nothing or has more than 500
\* characters, or the username trims to nothing; every other POST is answered
\* 201 with the stored message, which is pushed behind the log as it was.
C12_AppendAcceptsExactly ==
  [][\A body \in LimitBodies :
       PostMessages(body, ValidateMessages) =>
         IF \/ body.content = Undefined
            \/ body.username = Undefined
            \/ Trim(body.content) = <<>>
            \/ Len(body.content) > MaxContent
            \/ Trim(body.username) = <<>>
         THEN last'.status = 400 /\ messages' = messages
         ELSE /\ last'.status = 201
              /\ Len(messages') = Len(messages) + 1
              /\ SubSeq(messages', 1, Len(messages)) = messages
              /\ last'.out = <<messages'[Len(messages')]>>
              /\ messages'[Len(messages')].content = body.content
              /\ messages'[Len(messages')].username = body.username]_vars

\* C12 witness: a content of exactly 500 characters has just been stored
C12_Witness ==
  /\ last.op = "POST /api/messages"
  /\ last.status = 201
  /\ Len(messages) = 1
  /\ messages[1].content = Full
  /\ last.out = <<messages[1]>>

\* C13: a touch by a user who has an entry keeps the id of the entry; a touch
\* by a user who has none gives the entry an id never handed out before; either
\* way the user has one entry afterwards, its lastTyping is the time of the
\* touch, and the response is that entry.
C13_TouchKeepsIdentity ==
  [][\A u \in Users :
       (last'.op = "POST /api/typing" /\ last'.who = u) =>
         /\ HasEntry(typingUsers', u)
         /\ Cardinality({i \in 1..Len(typingUsers') : typingUsers'[i].username = u}) = 1
         /\ MapGet(typingUsers', u).lastTyping = now
         /\ last'.out = <<MapGet(typingUsers', u)>>
         /\ IF HasEntry(typingUsers, u)
            THEN MapGet(typingUsers', u).id = MapGet(typingUsers, u).id
            ELSE /\ MapGet(typingUsers', u).id > uuids
                 /\ \A i \in 1..Len(typingUsers) :
                      typingUsers[i].id # MapGet(typingUsers', u).id]_vars

\* C13 witness: a user touched twice within 3000 ms, the other user's entry
\* made in between; the user's entry still has the first id and the time of
\* the second touch
C13_Witness ==
  \E u \in Users :
    /\ last.op = "POST /api/typing" /\ last.who = u
    /\ typingRun[u].since < now
    /\ Len(typingUsers) = 2
    /\ typingUsers[1] = [id |-> 1, username |-> u, lastTyping |-> now]
    /\ typingUsers[2].id = 2
    /\ typingUsers[2].lastTyping > typingRun[u].since

\* C14: a POST to /api/typing whose username has length 0 is answered 400 and
\* leaves the registry and the log as they were.
C14_RejectedTouchChangesNothing ==
  [][\A body \in LimitTypingBodies :
       (body.username = Empty /\ PostTyping(body)) =>
         /\ last'.status = 400
         /\ typingUsers' = typingUsers
         /\ messages' = messages]_vars

\* C14 witness: with an entry in the registry and a message in the log, a
\* touch with the empty username has just been rejected
C14_Witness ==
  /\ last.op = "POST /api/typing"
  /\ last.who = Empty
  /\ last.status = 400
  /\ typingUsers # <<>>
  /\ messages # <<>>


\* C15: the list a user's fetch gets holds every message stored by then
\* exactly once, whole; and the list a user holds changes only by that user's
\* own fetch, so a push after the fetch leaves it as it was.
C15_ListIsSnapshot ==
  [][\A u \in Users :
       /\ (last'.op = "GET /api/messages" /\ last'.who = u) =>
            /\ Len(data'[u]) = Len(messages)
            /\ \A i \in 1..Len(messages) :
                 Cardinality({j \in 1..Len(data'[u]) : data'[u][j] = messages[i]}) = 1
       /\ data'[u] # data[u] => (last'.op = "GET /api/messages" /\ last'.who = u)
       /\ last'.op = "POST /api/messages" => data'[u] = data[u]]_vars

\* C15 witness: a user holds the list of one message it fetched, and a second
\* message has just been pushed
C15_Witness ==
  \E u \in Users :
    /\ last.op = "POST /api/messages" /\ last.status = 201
    /\ Len(messages) = 2
    /\ data[u] = <<messages[1]>>


\* C16: a sweep leaves what a query of the typing users returns at that
\* instant as it was, whoever is excluded.
C16_SweepKeepsActive ==
  [][last'.op = "sweep" =>
       \A x \in Users \cup {Undefined} :
         getActiveTypingUsers(typingUsers', x, now) = getActiveTypingUsers(typingUsers, x, now)]_vars

\* C16 witness: a sweep has just run and kept both entries, one of them older
\* than 3000 ms, which a query would not return, and one that it would
C16_Witness ==
  /\ last.op = "sweep"
  /\ Len(typingUsers) = 2
  /\ \E i \in 1..2 : now - typingUsers[i].lastTyping > Wactive
  /\ Len(getActiveTypingUsers(typingUsers, Undefined, now)) = 1


\* C17 as stated: no entry is ever older than Wreap plus the sweep interval.
C17_Original ==
  \A i \in 1..Len(typingUsers) : now - typingUsers[i].lastTyping <= Wreap + SweepEvery

\* the time the cleanup last ran, 0 before its first run
LastSweep == nextSweep - SweepEvery

\* no entry was older than Wreap when the cleanup last ran
KeptBySweep ==
  \A i \in 1..Len(typingUsers) : typingUsers[i].lastTyping >= LastSweep - Wreap

\* the times of touch that the second run of the timer finds older than Wreap
ReapedTimes == {k * 1000 : k \in 0..((2 * SweepEvery - Wreap) \div 1000 - 1)}

\* an entry touched at such a time is removed unless it is touched again
UnrefreshedRemoved ==
  \A u \in Users, t \in ReapedTimes :
    (HasEntry(typingUsers, u) /\ MapGet(typingUsers, u).lastTyping = t)
      ~> ~(HasEntry(typingUsers, u) /\ MapGet(typingUsers, u).lastTyping = t)

\* C17: every entry is at most Wreap older than the last run of the cleanup,
\* so its age is at most Wreap plus the time since that run, which exceeds the
\* sweep interval when the timer fires late; an entry that is not touched
\* again is eventually removed.
C17_ReapBound == []KeptBySweep /\ UnrefreshedRemoved

\* C17 witness: the cleanup has just removed the entry of a user whose last
\* touch is more than Wreap plus the sweep interval ago
C17_Witness ==
  /\ last.op = "sweep"
  /\ ~HasEntry(typingUsers, Alice)
  /\ typingRun[Alice].at >= 0
  /\ now - typingRun[Alice].at > Wreap + SweepEvery


\* C18 as stated: a user touched exactly Wactive before the query is not
\* among the typing users returned.
C18_Original ==
  TypingQueried =>
    \A i \in 1..Len(typingUsers) :
      now - typingUsers[i].lastTyping = Wactive => typingUsers[i].username \notin Range(last.out)

\* C18: a user is returned as typing while its touch is at most Wactive old:
\* a user touched exactly Wactive before the query is returned unless it is
\* the excluded one, and a user touched earlier than that is not returned.
C18_ActiveUpToWindow ==
  TypingQueried =>
    \A i \in 1..Len(typingUsers) :
      /\ (now - typingUsers[i].lastTyping = Wactive /\ typingUsers[i].username # last.who)
           => typingUsers[i].username \in Range(last.out)
      /\ now - typingUsers[i].lastTyping > Wactive
           => typingUsers[i].username \notin Range(last.out)

\* C18 witness: a query has returned a user touched exactly Wactive before it
\* and left out one touched a second earlier
C18_Witness ==
  /\ TypingQueried
  /\ \E i \in 1..Len(typingUsers) :
       /\ now - typingUsers[i].lastTyping = Wactive
       /\ typingUsers[i].username \in Range(last.out)
  /\ \E i \in 1..Len(typingUsers) : now - typingUsers[i].lastTyping = Wactive + 1000


\* the routes that read
ReadOps == {"GET /api/messages", "GET /api/typing", "TypingIndicator"}

\* C19: the reading routes leave the messages and the registry as they are;
\* posting a message leaves the registry as it is; posting a typing status
\* leaves the messages as they are and removes no entry; the sweep leaves the
\* messages as they are and every entry it keeps is as it was; an entry is
\* removed only by the sweep, created or updated only by a posted typing
\* status, and the messages change only by a posted message.
C19_WriterDiscipline ==
  [][/\ last'.op \in ReadOps => (messages' = messages /\ typingUsers' = typingUsers)
     /\ last'.op = "POST /api/messages" => typingUsers' = typingUsers
     /\ last'.op = "POST /api/typing" =>
          /\ messages' = messages
          /\ \A i \in 1..Len(typingUsers) : HasEntry(typingUsers', typingUsers[i].username)
     /\ last'.op = "sweep" =>
          /\ messages' = messages
          /\ Range(typingUsers') \subseteq Range(typingUsers)
     /\ (\E i \in 1..Len(typingUsers) : ~HasEntry(typingUsers', typingUsers[i].username))
          => last'.op = "sweep"
     /\ ~(Range(typingUsers') \subseteq Range(typingUsers)) => last'.op = "POST /api/typing"
     /\ messages' # messages => last'.op = "POST /api/messages"]_vars

\* C19 witness: with a message stored, a sweep has just removed the entry of
\* a user and kept the entry of another
C19_Witness ==
  /\ last.op = "sweep"
  /\ messages # <<>>
  /\ Len(typingUsers) = 1
  /\ \E u \in Users : typingRun[u].at >= 0 /\ ~HasEntry(typingUsers, u)


\* the registry and the UUIDs drawn, after a typing status of user u is posted
\* at time t
Touched(st, u, t) ==
  [entries |-> updateTypingStatus(st.entries, u, randomUUID(st.n), t),
   n |-> IF MapGet(st.entries, u).username = u THEN st.n ELSE st.n + 1]

\* the users of a registry, each with its lastTyping
Stamps(entries) ==
  {[username |-> e.username, lastTyping |-> e.lastTyping] : e \in Range(entries)}

\* a posted typing status leaves the entry of every other user as it is
TouchLeavesOthers ==
  [][(last'.op = "POST /api/typing" /\ last'.status = 200) =>
       \A i \in 1..Len(typingUsers) :
         typingUsers[i].username # last'.who => typingUsers[i] \in Range(typingUsers')]_vars

\* from any registry, two users posting at the same time in either order
\* leave the same users with the same lastTyping
TouchesCommute ==
  \A a, b \in Users :
    a # b =>
      LET st == [entries |-> typingUsers, n |-> uuids]
      IN  Stamps(Touched(Touched(st, a, now), b, now).entries)
            = Stamps(Touched(Touched(st, b, now), a, now).entries)

\* C20: a typing status posted by one user leaves the entry (id and
\* lastTyping) of every other user as it is, and two users posting in either
\* order at the same time leave the same users with the same lastTyping.
C20_TouchesIndependent == TouchLeavesOthers /\ []TouchesCommute

\* C20 witness: Bob has just posted a typing status next to the entry Alice
\* made two seconds before, which is as it was
C20_Witness ==
  /\ last.op = "POST /api/typing" /\ last.status = 200 /\ last.who = Bob
  /\ Len(typingUsers) = 2
  /\ typingUsers[1].username = Alice /\ typingUsers[1].lastTyping = now - 2000
  /\ typingUsers[2].username = Bob /\ typingUsers[2].lastTyping = now
  /\ typingRun[Alice].at = now - 2000


\* C21: after the same appends, the database-backed store lists the messages
\* in the sequence the in-memory store does: ascending by timestamp, messages
\* of equal timestamp in the order of their appends.
C21_DbSameAsMem ==
  last.op = "DatabaseStorage.getMessages" => last.out = getMessages(messages)


\* a send in flight ends only by being answered 201, the message stored once
\* with the content sent, whatever became of the touches before it
SendSucceeds ==
  [][\A u \in Users :
       (sending[u] # Undefined /\ sending'[u] = Undefined) =>
         /\ last'.op = "POST /api/messages" /\ last'.who = u /\ last'.status = 201
         /\ Len(messages') = Len(messages) + 1
         /\ messages'[Len(messages')].content = sending[u]
         /\ messages'[Len(messages')].username = u
         /\ created'[u] = created[u] + 1]_vars

\* a touch, served or failed, leaves the sends in flight and the messages
TouchLeavesSends ==
  [][last'.op \in {"updateTypingStatus", "POST /api/typing"} =>
       (sending' = sending /\ messages' = messages /\ data' = data)]_vars

\* a user with no send in flight can send, after failed touches too
CanSend ==
  \A u \in Users : sending[u] = Undefined => ENABLED HandleSendMessage(u, Yo)

\* C22: whether the touches of a chat are served or fail, they leave its sends
\* alone: a send can always be started, and a send in flight is answered 201
\* and stores exactly one message.
C22_TouchIsAdvisory == SendSucceeds /\ TouchLeavesSends /\ []CanSend

\* C22 witness: every touch of Alice failed and the message she sent after
\* that has just been stored
C22_Witness ==
  /\ swallowed[Alice] /\ ~HasEntry(typingUsers, Alice)
  /\ last.op = "POST /api/messages" /\ last.who = Alice /\ last.status = 201
  /\ created[Alice] = 1 /\ sending[Alice] = Undefined


\* C23: run a second time at the same clock value, the sweep changes nothing:
\* from any registry two runs leave what one run leaves, and the registry a
\* sweep has just left is what a further run would leave.
C23_SweepIdempotent ==
  /\ sweep(sweep(typingUsers, now), now) = sweep(typingUsers, now)
  /\ last.op = "sweep" => sweep(typingUsers, now) = typingUsers

\* C23 witness: both users had an entry and a sweep has just removed the two
C23_Witness ==
  /\ last.op = "sweep"
  /\ typingUsers = <<>>
  /\ \A u \in Users : typingRun[u].at >= 0 /\ now - typingRun[u].at > Wreap


\* C24: when the notification effect of a user runs with previousMessageCount
\* 0, it reports no message as new and takes the length of the list held as
\* the count, so the messages first seen after an empty list are not reported.
C24_FirstSnapshotIsBaseline ==
  [][\A u \in Users :
       (last'.op = "effect" /\ last'.who = u /\ previousMessageCount[u] = 0) =>
         /\ last'.out = <<>>
         /\ previousMessageCount'[u] = Len(data[u])]_vars

\* C24 witness: Alice's chat, which first fetched an empty list, then fetched
\* a message of Bob; its effect has run and reported nothing
C24_Witness ==
  /\ last.op = "effect" /\ last.who = Alice /\ last.out = <<>>
  /\ Len(data[Alice]) = 1 /\ data[Alice][1].username = Bob
  /\ previousMessageCount[Alice] = 1


\* a stored message and the response carry the clock's reading and a fresh
\* UUID, in the in-memory and in the database-backed store
ServerStamps ==
  [][(last'.op = "POST /api/messages" /\ last'.status = 201) =>
       LET m == messages'[Len(messages')]
       IN  /\ Len(messages') = Len(messages) + 1
           /\ m.timestamp = now /\ m.id = randomUUID(uuids)
           /\ last'.out = <<m>>
           /\ \A i \in 1..Len(messages) : messages[i].id # m.id
           /\ table' = table \cup {m}]_vars

\* two bodies that differ only in id and timestamp are stored as the same
\* message
SameWhateverSent ==
  \A b1, b2 \in StampBodies :
    (b1.content = b2.content /\ b1.username = b2.username) =>
      /\ createMessage(messages, ParsedMessage(b1), randomUUID(uuids), now)
           = createMessage(messages, ParsedMessage(b2), randomUUID(uuids), now)
      /\ DbCreateMessage(table, ParsedMessage(b1), randomUUID(uuids), now)
           = DbCreateMessage(table, ParsedMessage(b2), randomUUID(uuids), now)

\* C25: whatever id and timestamp a body carries, the message stored has the
\* server's clock reading as timestamp and a UUID drawn by the server as id,
\* and bodies that differ only in these two fields are stored alike.
C25_ServerAssignsStamp == ServerStamps /\ []SameWhateverSent

\* C25 witness: two bodies carrying an id and a timestamp were stored a second
\* apart, each with the clock's reading
C25_Witness ==
  /\ last.op = "POST /api/messages" /\ last.status = 201
  /\ Len(messages) = 2 /\ Cardinality(table) = 2
  /\ messages[1].timestamp = 0 /\ messages[2].timestamp = 1000
  /\ now = 1000

====
